---- MODULE Spec2Model ----
(***************************************************************************)
(* The letter commit engine of components/ASLTranslator.tsx: the sampling  *)
(* loop (requestAnimationFrame + awaited predict), the hold / release      *)
(* gating refs, the word-boundary timer, the zustand store, and the        *)
(* lifecycle operations (toggleCamera, onReset, unmount cleanup).          *)
(*                                                                         *)
(* Time is Date.now() in milliseconds.  Strings are sequences of           *)
(* one-character strings, so that trim, toUpperCase, endsWith and string   *)
(* concatenation are computed rather than assumed.  Confidences and the     *)
(* threshold are in hundredths (0.95 is 95).                                *)
(***************************************************************************)
EXTENDS Integers, Sequences, FiniteSets, TLC

\* ---------------------------------------------------------------- bounds
T0 == 1000             \* Date.now() when the component has mounted
Horizon == 5           \* the clock moves in steps of 300 ms for Horizon steps,
                       \* and after that only to the next due boundary timer
MaxLetters == 2        \* ticks are processed while the text holds fewer letters
MaxChains == 2         \* sampling-loop chains that can be alive at once
MaxStarts == 1         \* startCamera calls that can be awaiting the webcam
MaxUi == 2             \* user events (buttons, sliders, unmount) in one behaviour
MaxCalls == 3          \* correctSentence calls in one behaviour
NlpHorizon == 4        \* steps of 10 s the clock makes between correctSentence calls

\* ------------------------------------------------------ program constants
LETTER_GAP_MS == 3000
RELEASE_MS == 300
AI_FAILURE_COOLDOWN_MS == 30000
DefaultThreshold == 95
DefaultHoldMs == 600
ThresholdMin == 70
ThresholdMax == 100
HoldMin == 200
HoldMax == 1200

\* ---------------------------------------------------------------- inputs
\* The elapsed time between two events.
Deltas == {300}

\* Candidate lists a predict call can resolve to: className, probability.
Cand(n, p) == [className |-> n, probability |-> p]
PredLists ==
  { << Cand(<<"a">>, 97), Cand(<<" ", "b", " ">>, 3) >>,
    << Cand(<<"a">>, 80), Cand(<<" ", "b", " ">>, 20) >>,
    << Cand(<<"a">>, 3), Cand(<<" ", "b", " ">>, 97) >> }

\* Candidate lists for the choice of the best candidate on its own: one to
\* three candidates, with ties.
ArgmaxCands == {Cand(n, p) : n \in {<<"a">>, <<" ", "b", " ">>}, p \in {3, 50, 97}}
ArgmaxLists ==
  UNION {[1..n -> ArgmaxCands] : n \in 1..3}

\* A JavaScript number is an integer here, or NaN.  Thresholds and confidences
\* are in hundredths; the argument of setHoldMs is in tenths of a millisecond,
\* so that Math.round has something to round.
NaN == -1000000

\* Arguments handed to setThreshold and setHoldMs while the loop runs.
ThresholdInputs == {50}
HoldInputs == {50000}

\* Arguments of setThreshold and setHoldMs for the store on its own: below, in
\* and above the range, fractional milliseconds, and NaN.
ThresholdArgs == {NaN, 50, 150} \cup (69..101)
HoldArgs == {NaN, -15, 500, 1994, 1995, 2004, 2005, 6004, 6005, 11994, 11995, 12004, 50000}

\* ------------------------------------------------------------- functions
Min2(a, b) == IF a < b THEN a ELSE b
Max2(a, b) == IF a > b THEN a ELSE b

\* Math.min, Math.max: NaN if an argument is NaN
MathMin(a, b) == IF a = NaN \/ b = NaN THEN NaN ELSE Min2(a, b)
MathMax(a, b) == IF a = NaN \/ b = NaN THEN NaN ELSE Max2(a, b)

\* Math.round of a number given in tenths: the nearest integer, halves upwards
MathRound(x10) == IF x10 = NaN THEN NaN ELSE (x10 + 5) \div 10

\* a >= b on numbers: false if an operand is NaN
Geq(a, b) == a # NaN /\ b # NaN /\ a >= b

\* setThreshold: Math.min(1.0, Math.max(0.7, v))
ClampThreshold(v) == MathMin(ThresholdMax, MathMax(ThresholdMin, v))

\* setHoldMs: Math.min(1200, Math.max(200, Math.round(ms))); ms10 is ms in tenths
ClampHoldMs(ms10) == MathMin(HoldMax, MathMax(HoldMin, MathRound(ms10)))

\* variant: trim leaves the string as it is
Trim_None(s) == s

\* String.prototype.trim on a sequence of characters
RECURSIVE TrimLeft(_)
TrimLeft(s) == IF s # <<>> /\ Head(s) = " " THEN TrimLeft(Tail(s)) ELSE s

RECURSIVE TrimRight(_)
TrimRight(s) ==
  IF s # <<>> /\ s[Len(s)] = " " THEN TrimRight(SubSeq(s, 1, Len(s) - 1)) ELSE s

Trim(s) == TrimRight(TrimLeft(s))

\* String.prototype.toUpperCase
UpperChar(c) ==
  CASE c = "a" -> "A"
    [] c = "b" -> "B"
    [] OTHER -> c

\* variant: toUpperCase leaves the string as it is
ToUpperCase_None(s) == s

ToUpperCase(s) == [i \in 1..Len(s) |-> UpperChar(s[i])]

\* String.prototype.endsWith(' ')
EndsWithSpace(s) == s # <<>> /\ s[Len(s)] = " "

\* preds.reduce((a, b) => (a.probability > b.probability ? a : b))
RECURSIVE ReduceBest(_, _)
ReduceBest(acc, rest) ==
  IF rest = <<>> THEN acc
  ELSE ReduceBest(IF acc.probability > Head(rest).probability THEN acc ELSE Head(rest),
                  Tail(rest))

\* variant: the first candidate is taken
Best_First(preds) == Head(preds)

Best(preds) == ReduceBest(Head(preds), Tail(preds))

\* --------------------------------------------------- the tick's decisions
\* variant: the dwell starts only when no label was tracked
TrackedSince_Never(label, ld, ss, t) == ss

TrackedSince_FromEmpty(label, ld, ss, t) == IF ss = 0 THEN t ELSE ss

\* if (lastDetectedLabelRef.current !== label) stableSinceRef.current = now
TrackedSince(label, ld, ss, t) == IF ld # label THEN t ELSE ss

\* variant: the dwell must exceed holdMs
HeldLongEnough_Strict(t, since, hold) == (t - since) > hold

\* const heldLongEnough = (now - stableSinceRef.current) >= holdMs
HeldLongEnough(t, since, hold) == Geq(t - since, hold)

\* variant: the release test without the releaseStartRef.current > 0 guard
Released_Unguarded(t, rs) == (t - rs) >= RELEASE_MS

\* const released = releaseStartRef.current > 0 && (now - releaseStartRef.current) >= RELEASE_MS
Released(t, rs) == rs > 0 /\ (t - rs) >= RELEASE_MS

\* variant: the commit test without the lastEmittedLabel gate
ShouldCommit_HeldOnly(label, le, released, held) == held

\* if ((label !== lastEmittedLabelRef.current || released) && heldLongEnough)
ShouldCommit(label, le, released, held) == (label # le \/ released) /\ held

\* variant: the below-threshold branch never starts the release timer
OnBelow_NoRelease(ld, ss, rs, t) == [label |-> <<>>, since |-> 0, release |-> rs]

\* variant: the below-threshold branch keeps the tracked label and its start
OnBelow_KeepTracked(ld, ss, rs, t) ==
  [label |-> ld, since |-> ss, release |-> IF rs = 0 THEN t ELSE rs]

\* variant: the below-threshold branch clears the tracked label but not its start
OnBelow_KeepSince(ld, ss, rs, t) ==
  [label |-> <<>>, since |-> ss, release |-> IF rs = 0 THEN t ELSE rs]

\* variant: every below-threshold tick restarts the release timer
OnBelow_RestartRelease(ld, ss, rs, t) == [label |-> <<>>, since |-> 0, release |-> t]

\* the below-threshold branch: start the release timer, reset stability
OnBelow(ld, ss, rs, t) ==
  [label |-> <<>>, since |-> 0, release |-> IF rs = 0 THEN t ELSE rs]

\* variant: clearTimeout cancels nothing
ClearTimeout_Noop(id, ts) == ts

\* clearTimeout(id); the id 0 stands for null and names no timer
ClearTimeout(id, ts) == ts \ {id}

\* variant: the boundary timer is set for twice the letter gap
BoundaryDue_Double(t) == t + 2 * LETTER_GAP_MS

\* window.setTimeout(cb, LETTER_GAP_MS) at time t: the timer is named by its due time
BoundaryDue(t) == t + LETTER_GAP_MS

\* the timer callback: if (current && !current.endsWith(' ')) appendText(' ')
BoundaryAppend(s) == IF s # <<>> /\ ~EndsWithSpace(s) THEN s \o <<" ">> ELSE s

\* ------------------------------------------------------------------ state
VARIABLES
  text, threshold, cameraOn, holdMs,      \* the zustand store
  lastDetectedLabelRef, stableSinceRef,   \* gating refs of the component
  lastEmittedLabelRef, releaseStartRef,
  letterGapTimerRef,                      \* 0 is null, else the timer's id
  rafRef,                                 \* 0 is null, -1 a frame id that already ran,
                                          \* c the pending frame of chain c
  modelRef, webcamRef,                    \* TRUE when the ref holds an object
  now,                                    \* Date.now()
  timers,                                 \* outstanding setTimeout callbacks (due times)
  chains,                                 \* sampling-loop chains: frame pending / predict awaited
  starts,                                 \* startCamera calls awaiting the webcam: captured holdMs
  mounted,                                \* the component is mounted
  nui,                                    \* user events so far
  h,                                      \* history of the run, for the properties
  pred,                                   \* the latest tick's preds and best (loop locals)
  nlp                                     \* api/nlp.ts: lastAiFailureAt, its environment
                                          \* and the correctSentence calls

store == <<text, threshold, cameraOn, holdMs>>
gating == <<lastDetectedLabelRef, stableSinceRef, lastEmittedLabelRef, releaseStartRef>>
refs == <<gating, letterGapTimerRef, rafRef, modelRef, webcamRef>>
component == <<store, refs, timers, chains, starts, mounted, nui, h, pred>>
vars == <<component, now, nlp>>

ChainIds == 1..MaxChains
NoChain == [st |-> "none", hold |-> 0]
FrameChain(hold) == [st |-> "frame", hold |-> hold]
AwaitChain(hold) == [st |-> "await", hold |-> hold]

\* api/nlp.ts before any correctSentence call: the AI scene is configured and
\* the browser is online.  A call is none, inflight (awaiting generateText) or
\* done; it remembers its rawText, when it started and ended (time, and the
\* number of call starts and ends before it), whether it issued a generateText
\* request, the path it returned on and the value it returned.
CallIds == 1..MaxCalls
NoCall == [st |-> "none", raw |-> <<>>, started |-> 0, startNo |-> 0, ended |-> 0,
           endNo |-> 0, requested |-> FALSE, path |-> "none", ret |-> <<>>]
NoNlp == [lastAiFailureAt |-> 0, configured |-> TRUE, offline |-> FALSE, events |-> 0,
          calls |-> [i \in CallIds |-> NoCall]]

\* no tick has resolved a prediction yet
NoPred == [preds |-> <<>>, best |-> Cand(<<>>, 0)]

\* ---------------------------------------------------------------- history
\* What the properties need to remember of the behaviour so far.  A run is a
\* maximal sequence of consecutive ticks that report the same label at or above
\* the threshold, with no onReset or unmount cleanup between them.  A dip is a
\* maximal sequence of consecutive below-threshold ticks; it lasts from its
\* first tick to the first tick at or above the threshold that follows it.
NoTick == [kind |-> "none", commit |-> FALSE, out |-> <<>>, repeat |-> FALSE,
           sinceBelow |-> -1, longDip |-> FALSE]

NoHistory ==
  [ runLabel |-> <<>>,      \* the label of the current run, <<>> when there is none
    runStart |-> 0,         \* Date.now() of the run's first tick
    runFresh |-> FALSE,     \* the label was not lastEmittedLabel when the run started
    runReleased |-> FALSE,  \* the run follows an emission of its label and then a dip
                            \* whose below-threshold ticks span RELEASE_MS or more
    runReached |-> FALSE,   \* a tick of the run had now - runStart >= its holdMs
    runEmits |-> 0,         \* characters emitted by ticks of the run (counted to 2)
    dipStart |-> 0,         \* first tick of the dip in progress, 0 when there is none
    dipSpan |-> FALSE,      \* its below-threshold ticks span RELEASE_MS or more
    firstBelow |-> 0,       \* first below-threshold tick since the last emission
    longDip |-> FALSE,      \* a dip since the last emission lasted RELEASE_MS or more
    tick |-> NoTick,        \* the latest tick since the refs were last wiped: above or
                            \* below the threshold; it emitted, and what;
                            \* the label it emitted was lastEmittedLabel already; the time
                            \* since firstBelow (counted to RELEASE_MS, -1 for none) and
                            \* longDip when it emitted
    lastEmit |-> 0,         \* Date.now() of the last emitted character
    cancelled |-> FALSE,    \* that emission came while an earlier boundary timer was pending
    disturbed |-> FALSE,    \* onReset or a stop since that emission, or it came while stopped
    spaces |-> 0,           \* spaces appended since that emission (counted to 2)
    spaceGap |-> -1,        \* time from that emission to the latest of those spaces,
                            \* -1 for none
    stopped |-> FALSE,      \* stopped, and no character emitted by a running session since
    stopSpaces |-> 0 ]      \* spaces appended since then (counted to 1)

Running == cameraOn /\ mounted

\* a tick at time t: above says conf >= threshold, out is what it appended to the text
HTick(above, label, out, hold, t) ==
  LET commit == out # <<>>
      same == above /\ h.runLabel = label /\ h.runLabel # <<>>
      start == IF same THEN h.runStart ELSE t
      long == h.longDip \/ (above /\ h.dipStart > 0 /\ t - h.dipStart >= RELEASE_MS)
      dip == IF h.dipStart = 0 THEN t ELSE h.dipStart
  IN [h EXCEPT
        !.runLabel = IF above THEN label ELSE <<>>,
        !.runStart = IF above THEN start ELSE 0,
        !.runFresh = above /\ (IF same THEN @ ELSE label # lastEmittedLabelRef),
        !.runReleased = above /\ (IF same THEN @
                                  ELSE label = lastEmittedLabelRef /\ h.dipSpan),
        !.runReached = above /\ ((same /\ @) \/ (t - start >= hold)),
        !.runEmits = IF above
                     THEN Min2(2, (IF same THEN @ ELSE 0) + (IF commit THEN 1 ELSE 0))
                     ELSE 0,
        !.dipStart = IF above THEN 0 ELSE dip,
        !.dipSpan = ~above /\ (t - dip >= RELEASE_MS),
        !.firstBelow = IF commit THEN 0 ELSE IF ~above /\ @ = 0 THEN t ELSE @,
        !.longDip = IF commit THEN FALSE ELSE long,
        !.tick = [kind |-> IF above THEN "above" ELSE "below",
                  commit |-> commit,
                  out |-> out,
                  repeat |-> commit /\ label = lastEmittedLabelRef,
                  sinceBelow |-> IF commit /\ h.firstBelow > 0
                                 THEN Min2(RELEASE_MS, t - h.firstBelow) ELSE -1,
                  longDip |-> commit /\ long],
        !.lastEmit = IF commit THEN t ELSE @,
        !.cancelled = IF commit THEN letterGapTimerRef \in timers ELSE @,
        !.disturbed = IF commit THEN ~Running ELSE @,
        !.spaces = IF commit THEN 0 ELSE @,
        !.spaceGap = IF commit THEN -1 ELSE @,
        !.stopped = IF commit /\ Running THEN FALSE ELSE @,
        !.stopSpaces = IF commit /\ Running THEN 0 ELSE @ ]

\* the boundary callback ran at time t; appended says it appended a space
HBoundary(appended, t) ==
  IF appended
  THEN [h EXCEPT !.spaces = Min2(2, @ + 1),
                 !.spaceGap = IF h.lastEmit > 0 THEN t - h.lastEmit ELSE 0,
                 !.stopSpaces = IF h.stopped THEN 1 ELSE @]
  ELSE h

\* onReset or the unmount cleanup wiped the gating refs: the run in progress ends
HWiped ==
  [h EXCEPT !.runLabel = <<>>, !.runStart = 0, !.runFresh = FALSE,
            !.runReleased = FALSE, !.runReached = FALSE, !.runEmits = 0,
            !.dipSpan = FALSE, !.tick = NoTick, !.disturbed = TRUE]

\* the letters in the text (the characters that are not spaces)
Letters(s) == Cardinality({i \in 1..Len(s) : s[i] # " "})

\* the session was stopped
HStopped(hh) == [hh EXCEPT !.disturbed = TRUE, !.stopped = TRUE, !.stopSpaces = 0]

\* ------------------------------------------------------------------- Init
\* The component has mounted: the model is loaded, startCamera has run and
\* startLoop has requested the first frame of the first render's loop.
\* localStorage holds no saved text, so the store's text starts empty.
Init ==
  /\ text = <<>>
  /\ threshold = DefaultThreshold
  /\ cameraOn = TRUE
  /\ holdMs = DefaultHoldMs
  /\ lastDetectedLabelRef = <<>>
  /\ stableSinceRef = 0
  /\ lastEmittedLabelRef = <<>>
  /\ releaseStartRef = 0
  /\ letterGapTimerRef = 0
  /\ rafRef = 1
  /\ modelRef = TRUE
  /\ webcamRef = TRUE
  /\ now = T0
  /\ timers = {}
  /\ chains = [c \in ChainIds |-> IF c = 1 THEN FrameChain(DefaultHoldMs) ELSE NoChain]
  /\ starts = <<>>
  /\ mounted = TRUE
  /\ nui = 0
  /\ h = NoHistory
  /\ pred = NoPred
  /\ nlp = NoNlp

\* ------------------------------------------------------- loop scheduling
\* cancelAnimationFrame(rafRef.current): only a still pending frame is cancelled
CancelFrame(ch, raf) ==
  IF raf \in ChainIds /\ ch[raf].st = "frame" THEN [ch EXCEPT ![raf] = NoChain] ELSE ch

FreeSlots(ch) == {c \in ChainIds : ch[c].st = "none"}
LowestFree(ch) == CHOOSE c \in FreeSlots(ch) : \A d \in FreeSlots(ch) : c <= d

\* startLoop of a render whose holdMs is hold:
\*   if (rafRef.current) cancelAnimationFrame(rafRef.current);
\*   rafRef.current = requestAnimationFrame(loop)
StartLoopChains(ch, raf, hold) ==
  LET cancelled == IF raf # 0 THEN CancelFrame(ch, raf) ELSE ch
  IN [cancelled EXCEPT ![LowestFree(cancelled)] = FrameChain(hold)]

StartLoopRaf(ch, raf) ==
  LowestFree(IF raf # 0 THEN CancelFrame(ch, raf) ELSE ch)

\* stopLoop: if (rafRef.current) { cancelAnimationFrame(...); rafRef.current = null }
StopLoopChains(ch, raf) == IF raf # 0 THEN CancelFrame(ch, raf) ELSE ch

\* the holdMs that the loop of chain c compares the dwell with: the holdMs of
\* the render whose startLoop requested the chain's first frame
LoopHoldMs(c) == chains[c].hold

\* a requested frame runs loop() up to its await (or to its early return)
FrameFire(c) ==
  /\ chains[c].st = "frame"
  /\ \/ /\ ~modelRef \/ ~cameraOn \/ ~webcamRef
        /\ rafRef' = c
        /\ UNCHANGED chains
     \/ /\ modelRef /\ cameraOn /\ webcamRef
        /\ chains' = [chains EXCEPT ![c] = AwaitChain(@.hold)]
        /\ rafRef' = IF rafRef = c THEN -1 ELSE rafRef
  /\ UNCHANGED <<nlp, pred, store, gating, letterGapTimerRef, modelRef, webcamRef, now, timers,
                 starts, mounted, nui, h>>

\* variant: a failed prediction is handled like a below-threshold tick
PredictFail_Below(c) ==
  /\ chains[c].st = "await"
  /\ chains' = [chains EXCEPT ![c] = NoChain]
  /\ releaseStartRef' = IF releaseStartRef = 0 THEN now ELSE releaseStartRef
  /\ lastDetectedLabelRef' = <<>>
  /\ stableSinceRef' = 0
  /\ UNCHANGED <<nlp, pred, store, lastEmittedLabelRef, letterGapTimerRef, rafRef, modelRef,
                 webcamRef, now, timers, starts, mounted, nui, h>>

\* predict rejects, or resolves to an empty list on which reduce throws: the
\* async loop() rejects before it requests another frame
PredictFail(c) ==
  /\ chains[c].st = "await"
  /\ chains' = [chains EXCEPT ![c] = NoChain]
  /\ UNCHANGED <<nlp, pred, store, refs, now, timers, starts, mounted, nui, h>>

\* predict resolves to preds: the rest of loop() runs, one tick
PredictResolve(c, preds) ==
  /\ chains[c].st = "await"
  /\ Letters(text) < MaxLetters
  /\ LET best == Best(preds)
         conf == best.probability
         label == Trim(best.className)
         thr == threshold
         since == TrackedSince(label, lastDetectedLabelRef, stableSinceRef, now)
         held == HeldLongEnough(now, since, LoopHoldMs(c))
         released == Released(now, releaseStartRef)
         above == Geq(conf, thr)
         commit == above /\ ShouldCommit(label, lastEmittedLabelRef, released, held)
         below == OnBelow(lastDetectedLabelRef, stableSinceRef, releaseStartRef, now)
     IN /\ IF above
           THEN /\ lastDetectedLabelRef' = label
                /\ stableSinceRef' = since
                /\ IF commit
                   THEN /\ text' = text \o ToUpperCase(label)
                        /\ lastEmittedLabelRef' = label
                        /\ releaseStartRef' = 0
                        /\ timers' = ClearTimeout(letterGapTimerRef, timers)
                                       \cup {BoundaryDue(now)}
                        /\ letterGapTimerRef' = BoundaryDue(now)
                   ELSE UNCHANGED <<text, lastEmittedLabelRef, releaseStartRef, timers,
                                    letterGapTimerRef>>
           ELSE /\ releaseStartRef' = below.release
                /\ lastDetectedLabelRef' = below.label
                /\ stableSinceRef' = below.since
                /\ UNCHANGED <<text, lastEmittedLabelRef, timers, letterGapTimerRef>>
        /\ h' = HTick(above, label, SubSeq(text', Len(text) + 1, Len(text')),
                      LoopHoldMs(c), now)
  /\ pred' = [preds |-> preds, best |-> Best(preds)]
  /\ rafRef' = c
  /\ chains' = [chains EXCEPT ![c] = FrameChain(@.hold)]
  /\ UNCHANGED <<threshold, cameraOn, holdMs, modelRef, webcamRef, now, starts,
                 mounted, nui, nlp>>

\* variant: the boundary callback also sets letterGapTimerRef.current to null
TimerFire_ClearsRef(d) ==
  /\ d \in timers
  /\ now >= d
  /\ timers' = timers \ {d}
  /\ text' = BoundaryAppend(text)
  /\ letterGapTimerRef' = IF letterGapTimerRef = d THEN 0 ELSE letterGapTimerRef
  /\ h' = HBoundary(text' # text, now)
  /\ UNCHANGED <<nlp, pred, threshold, cameraOn, holdMs, gating, rafRef, modelRef, webcamRef,
                 now, chains, starts, mounted, nui>>

\* the word-boundary setTimeout callback
TimerFire(d) ==
  /\ d \in timers
  /\ now >= d
  /\ timers' = timers \ {d}
  /\ text' = BoundaryAppend(text)
  /\ h' = HBoundary(text' # text, now)
  /\ UNCHANGED <<nlp, pred, threshold, cameraOn, holdMs, refs, now, chains, starts, mounted, nui>>

\* ------------------------------------------------------------ UI handlers
OnReset_LeaksTimer ==
  /\ mounted
  /\ nui < MaxUi
  /\ nui' = nui + 1
  /\ text' = <<>>
  /\ lastDetectedLabelRef' = <<>>
  /\ lastEmittedLabelRef' = <<>>
  /\ stableSinceRef' = 0
  /\ timers' = timers
  /\ letterGapTimerRef' = 0
  /\ h' = HWiped
  /\ UNCHANGED <<nlp, pred, threshold, cameraOn, holdMs, releaseStartRef, rafRef, modelRef,
                 webcamRef, now, chains, starts, mounted>>

\* onReset: resetText and the gating refs; releaseStartRef is left alone
OnReset ==
  /\ mounted
  /\ nui < MaxUi
  /\ nui' = nui + 1
  /\ text' = <<>>
  /\ lastDetectedLabelRef' = <<>>
  /\ lastEmittedLabelRef' = <<>>
  /\ stableSinceRef' = 0
  /\ timers' = ClearTimeout(letterGapTimerRef, timers)
  /\ letterGapTimerRef' = 0
  /\ h' = HWiped
  /\ UNCHANGED <<nlp, pred, threshold, cameraOn, holdMs, releaseStartRef, rafRef, modelRef,
                 webcamRef, now, chains, starts, mounted>>

\* toggleCamera while cameraOn: stopLoop(); stopCamera(); setStatus('Camera off')
ToggleCameraOff ==
  /\ mounted
  /\ nui < MaxUi
  /\ nui' = nui + 1
  /\ cameraOn
  /\ chains' = StopLoopChains(chains, rafRef)
  /\ rafRef' = 0
  /\ webcamRef' = FALSE
  /\ cameraOn' = FALSE
  /\ h' = HStopped(h)
  /\ UNCHANGED <<nlp, pred, text, threshold, holdMs, gating, letterGapTimerRef, modelRef, now,
                 timers, starts, mounted>>

\* toggleCamera while the camera is off: startCamera() of the current render
\* begins and awaits webcam.setup() and webcam.play()
ToggleCameraOn ==
  /\ mounted
  /\ nui < MaxUi
  /\ nui' = nui + 1
  /\ ~cameraOn
  /\ Len(starts) < MaxStarts
  /\ starts' = Append(starts, holdMs)
  /\ UNCHANGED <<nlp, pred, store, refs, now, timers, chains, mounted,  h>>

\* the awaited webcam is ready: webcamRef, setCameraOn(true), startLoop()
StartCameraDone ==
  /\ starts # <<>>
  /\ FreeSlots(StopLoopChains(chains, rafRef)) # {}
  /\ webcamRef' = TRUE
  /\ cameraOn' = TRUE
  /\ chains' = StartLoopChains(chains, rafRef, Head(starts))
  /\ rafRef' = StartLoopRaf(chains, rafRef)
  /\ starts' = Tail(starts)
  /\ UNCHANGED <<nlp, pred, text, threshold, holdMs, gating, letterGapTimerRef, modelRef, now,
                 timers, mounted, nui, h>>

\* the threshold slider
SetThreshold(v) ==
  /\ mounted
  /\ nui < MaxUi
  /\ threshold' = ClampThreshold(v)
  /\ nui' = nui + 1
  /\ UNCHANGED <<nlp, pred, text, cameraOn, holdMs, refs, now, timers, chains, starts, mounted, h>>

\* the hold slider
SetHoldMs(ms10) ==
  /\ mounted
  /\ nui < MaxUi
  /\ holdMs' = ClampHoldMs(ms10)
  /\ nui' = nui + 1
  /\ UNCHANGED <<nlp, pred, text, threshold, cameraOn, refs, now, timers, chains, starts, mounted, h>>

\* the useEffect cleanup, run when the component unmounts
Unmount ==
  /\ mounted
  /\ nui < MaxUi
  /\ nui' = nui + 1
  /\ mounted' = FALSE
  /\ chains' = StopLoopChains(chains, rafRef)
  /\ rafRef' = 0
  /\ webcamRef' = FALSE
  /\ cameraOn' = FALSE
  /\ modelRef' = FALSE
  /\ timers' = ClearTimeout(letterGapTimerRef, timers)
  /\ letterGapTimerRef' = 0
  /\ lastDetectedLabelRef' = <<>>
  /\ lastEmittedLabelRef' = <<>>
  /\ stableSinceRef' = 0
  /\ h' = HStopped(HWiped)
  /\ UNCHANGED <<nlp, pred, text, threshold, holdMs, releaseStartRef, now, starts>>

\* ------------------------------------------------------------------ clock
\* Time passes.  A due setTimeout callback runs before the clock moves past it.
Advance(d) ==
  /\ now + d <= T0 + Horizon * 300
  /\ \A t \in timers : now + d <= t
  /\ now' = now + d
  /\ UNCHANGED <<nlp, pred, store, refs, timers, chains, starts, mounted, nui, h>>

\* Nothing happens until the earliest outstanding timer is due.
AdvanceToTimer ==
  /\ \E t \in timers :
       /\ \A u \in timers : t <= u
       /\ now < t
       /\ now' = t
  /\ UNCHANGED <<nlp, pred, store, refs, timers, chains, starts, mounted, nui, h>>

Next ==
  \/ \E c \in ChainIds : FrameFire(c)
  \/ \E c \in ChainIds, p \in PredLists : PredictResolve(c, p)
  \/ \E c \in ChainIds : PredictFail(c)
  \/ \E d \in timers : TimerFire(d)
  \/ OnReset
  \/ ToggleCameraOff
  \/ ToggleCameraOn
  \/ StartCameraDone
  \/ \E v \in ThresholdInputs : SetThreshold(v)
  \/ \E ms10 \in HoldInputs : SetHoldMs(ms10)
  \/ Unmount
  \/ \E d \in Deltas : Advance(d)
  \/ AdvanceToTimer

Spec == Init /\ [][Next]_vars

\* The store on its own: setThreshold and setHoldMs with arbitrary arguments.
NextConfig ==
  \/ \E v \in ThresholdArgs : SetThreshold(v)
  \/ \E ms10 \in HoldArgs : SetHoldMs(ms10)

SpecConfig == Init /\ [][NextConfig]_vars

\* The loop on arbitrary candidate lists: frames and resolved predictions only.
NextArgmax ==
  \/ \E c \in ChainIds : FrameFire(c)
  \/ \E c \in ChainIds, p \in ArgmaxLists : PredictResolve(c, p)

SpecArgmax == Init /\ [][NextArgmax]_vars

\* ----------------------------------------------------------------- claims
\* In C1 to C3 holdMs is the value the tick compares the dwell with (the holdMs
\* of the loop that runs the tick); C10 is about which value that is.

\* C1: in a run of consecutive ticks that all report a label L at or above the
\* threshold, no tick whose dwell (now - time of the run's first tick) is below
\* holdMs emits a character; when L was not the last emitted label at the start
\* of the run, exactly one character, uppercase(L), is emitted during the run,
\* by the first tick whose dwell is holdMs or more.
C1_MinimumDwell ==
  h.runLabel # <<>> =>
    /\ ~h.runReached => h.runEmits = 0
    /\ (h.runFresh /\ h.runReached) => h.runEmits = 1
    /\ h.tick.commit =>
          \/ h.runLabel = <<"a">> /\ h.tick.out = <<"A">>
          \/ h.runLabel = <<"b">> /\ h.tick.out = <<"B">>

\* a tick of a fresh run has just emitted the run's one character
C1_Witness ==
  /\ h.runFresh /\ h.runReached /\ h.runEmits = 1
  /\ h.tick.commit /\ h.tick.out = <<"B">>
  /\ now - h.runStart >= DefaultHoldMs

\* C2: after a tick emits L, later ticks of the same run (all reporting L at or
\* above the threshold, none below in between) emit nothing, however long the
\* run lasts.
C2_NoDuplicateWithoutRelease == h.runEmits <= 1

\* a run that emitted is still going two holds later, and its latest tick emitted nothing
C2_Witness ==
  /\ h.runEmits = 1 /\ h.tick.kind = "above" /\ ~h.tick.commit
  /\ now - h.runStart >= 2 * DefaultHoldMs

\* C3: after L is emitted, when ticks report below the threshold over a span
\* of RELEASE_MS or more and then L is reported at or above the threshold on
\* consecutive ticks, that run emits nothing before its dwell reaches holdMs and
\* exactly one L by the first tick whose dwell is holdMs or more.
C3_RepeatAfterRelease ==
  h.runReleased =>
    /\ h.runEmits = (IF h.runReached THEN 1 ELSE 0)
    /\ (h.tick.commit => h.tick.repeat /\ Len(h.tick.out) = 1)

\* the second emission of the same label has just happened
C3_Witness ==
  /\ h.runReleased /\ h.runReached /\ h.runEmits = 1
  /\ h.tick.commit /\ h.tick.repeat /\ text = <<"A", "A">>

\* C4 as stated: a label equal to lastEmittedLabel is committed again only if,
\* since its last emission, some dip lasted RELEASE_MS or more (an interval of
\* at least RELEASE_MS in which every tick was below the threshold).
C4_ReleaseIsContinuous == h.tick.repeat => h.tick.longDip

\* C4 amended: a label equal to lastEmittedLabel is committed again only if,
\* since its last emission, some tick was below the threshold and RELEASE_MS
\* or more have passed since the first such tick; the ticks in between need
\* not stay below the threshold.
C4_ReleaseSinceFirstDip == h.tick.repeat => h.tick.sinceBelow = RELEASE_MS

\* the same label is emitted again although every dip since its last emission
\* was shorter than RELEASE_MS
C4_Witness ==
  /\ h.tick.repeat /\ ~h.tick.longDip /\ h.tick.sinceBelow = RELEASE_MS
  /\ text = <<"A", "A">>

\* C5: a tick whose best confidence is below the threshold appends nothing to
\* the text, and after it lastDetectedLabelRef is '' and stableSinceRef is 0.
C5_NoSubThresholdCommit ==
  h.tick.kind = "below" =>
    /\ ~h.tick.commit /\ h.tick.out = <<>>
    /\ lastDetectedLabelRef = <<>>
    /\ stableSinceRef = 0

\* a below-threshold tick has interrupted the hold of a label after an emission
C5_Witness ==
  /\ h.tick.kind = "below" /\ releaseStartRef = now
  /\ text = <<"A">> /\ lastEmittedLabelRef = <<"a">>

\* C6: when the session keeps running without reset after the most recent
\* emission at time t, no space is appended before t + LETTER_GAP_MS, exactly
\* one has been appended (at t + LETTER_GAP_MS) once that time has passed, and
\* further idle time appends no second one.
C6_BoundaryInsertion ==
  (h.lastEmit > 0 /\ ~h.disturbed) =>
    /\ now < h.lastEmit + LETTER_GAP_MS => h.spaces = 0
    /\ now > h.lastEmit + LETTER_GAP_MS => h.spaces = 1
    /\ h.spaces <= 1
    /\ h.spaces = 1 => h.spaceGap = LETTER_GAP_MS /\ EndsWithSpace(text)

\* the one space has been appended and ticks went on after it
C6_Witness ==
  /\ h.lastEmit > 0 /\ ~h.disturbed /\ h.spaces = 1
  /\ now = h.lastEmit + LETTER_GAP_MS
  /\ h.tick.kind = "below" /\ text = <<"A", " ">>

\* C7: an emission while the boundary timer of an earlier emission is pending
\* cancels that timer: every pending boundary timer is the one of the latest
\* emission, and every appended space comes LETTER_GAP_MS or more after the
\* latest emission that precedes it.
C7_BoundaryCancellation ==
  /\ \A d \in timers : h.lastEmit > 0 /\ d = h.lastEmit + LETTER_GAP_MS
  /\ h.spaces > 0 => h.spaceGap >= LETTER_GAP_MS

\* a space was appended after an emission that had cancelled an earlier timer
C7_Witness ==
  /\ h.cancelled /\ h.spaces = 1 /\ timers = {}
  /\ text = <<"A", "B", " ">>

\* C8: when the session is stopped (toggleCamera off, or unmount) the pending
\* word-boundary timer is cancelled: no space is appended after the stop until
\* a running session emits a character again.
C8_StopCancelsBoundary == h.stopped => h.stopSpaces = 0

\* C9: after stopLoop has run in a stop (toggleCamera off or unmount), no
\* further tick is processed: while the session is stopped no awaited predict
\* continues into the tick's body (which appends text, writes the gating refs,
\* sets the boundary timer and requests the next animation frame).
C9_StopStopsTicking ==
  [][~Running =>
       \A c \in ChainIds : ~(chains[c].st = "await" /\ chains'[c].st = "frame")]_vars

\* C10: every tick of a running loop gates with the threshold and compares the
\* dwell with the holdMs that the store holds at that tick, so a setThreshold
\* or setHoldMs applies from the next tick on.  (The threshold part holds by
\* construction of the tick, which reads the store; the formula is the holdMs part.)
C10_ConfigAppliesNextTick ==
  [][\A c \in ChainIds :
       (chains[c].st = "await" /\ chains'[c].st = "frame") => LoopHoldMs(c) = holdMs]_vars

\* C11: after any sequence of setThreshold and setHoldMs calls with arbitrary
\* numeric arguments, threshold is within [0.70, 1.00] and holdMs is an integer
\* within [200, 1200].
\* An argument in the range is stored as given (holdMs rounded), one below it
\* as the lower bound and one above it as the upper bound.
C11_ConfigClamping ==
  /\ threshold \in ThresholdMin..ThresholdMax
  /\ holdMs \in HoldMin..HoldMax
  /\ \A v \in ThresholdMin..ThresholdMax : ClampThreshold(v) = v
  /\ ClampThreshold(50) = 70 /\ ClampThreshold(150) = 100
  /\ ClampHoldMs(6004) = 600 /\ ClampHoldMs(6005) = 601
  /\ ClampHoldMs(500) = 200 /\ ClampHoldMs(50000) = 1200

\* C12: each time tracking starts again (startCamera completes after a stop)
\* the engine state is fresh: lastDetectedLabelRef is '', stableSinceRef is 0,
\* lastEmittedLabelRef is '', releaseStartRef is 0 and no boundary timer is
\* pending, so the dwell of the first label is measured inside the new session
\* and the label is committed even when the previous session emitted it last.
C12_FreshStatePerSession ==
  [][Len(starts') < Len(starts) =>
       /\ lastDetectedLabelRef' = <<>> /\ stableSinceRef' = 0
       /\ lastEmittedLabelRef' = <<>> /\ releaseStartRef' = 0
       /\ timers' = {}]_vars

\* C13: at every moment at most one sampling-loop chain is alive: at most one
\* requested animation frame or in-flight predict call in total.
C13_OnlyOneSamplingLoop ==
  Cardinality({c \in ChainIds : chains[c].st # "none"}) <= 1

\* C14: when a committing tick and the boundary callback of the previous
\* emission are due at the same instant, the tick is applied first: no tick
\* commits a letter at an instant at which the boundary callback of the
\* emission before it has already appended its space.
C14_CommitBeforeDueBoundary ==
  [][\A c \in ChainIds :
       (chains[c].st = "await" /\ chains'[c].st = "frame" /\ Len(text') > Len(text))
         => ~(h.spaces > 0 /\ h.lastEmit > 0 /\ h.lastEmit + h.spaceGap = now)]_vars

\* C15 as stated: once the boundary callback has run, letterGapTimerRef.current
\* is null: the ref is non-null only while a boundary callback is outstanding.
C15_HandleClearedAfterFiring == letterGapTimerRef # 0 => letterGapTimerRef \in timers

\* C15 amended: the boundary callback leaves letterGapTimerRef.current alone.
\* Every outstanding boundary callback is the one the ref names (a null ref
\* means none is outstanding), and after the callback of the latest emission
\* has appended its space the ref still holds that timer's id, until onReset
\* or the unmount cleanup clears it or the next emission replaces it.
C15_HandleKeptAfterFiring ==
  /\ \A d \in timers : letterGapTimerRef = d
  /\ (h.spaces > 0 /\ ~h.disturbed) => letterGapTimerRef = h.lastEmit + LETTER_GAP_MS

\* the callback has run and appended its space; the ref still names it
C15_Witness ==
  /\ h.spaces = 1 /\ ~h.disturbed /\ timers = {}
  /\ letterGapTimerRef # 0 /\ text = <<"A", " ">>

\* C16: in every reachable state stableSinceRef is non-zero exactly when
\* lastDetectedLabelRef is non-empty, across ticks, onReset, camera toggles and
\* the unmount cleanup.  (Class names are not blank, so a label is never ''.)
C16_TrackingInvariant == (stableSinceRef # 0) <=> (lastDetectedLabelRef # <<>>)

\* a label is tracked again after a below-threshold tick and a user event
C16_Witness ==
  /\ lastDetectedLabelRef # <<>> /\ stableSinceRef > T0
  /\ releaseStartRef > 0 /\ nui > 0

\* C17: starting from an empty text, after any sequence of ticks, boundary
\* callbacks and resets the text never begins with a space and never holds two
\* adjacent spaces.
C17_NoDoubleOrLeadingSpace ==
  /\ text # <<>> => text[1] # " "
  /\ \A i \in 1..(Len(text) - 1) : ~(text[i] = " " /\ text[i + 1] = " ")

\* two letters, each followed by the one space of its idle gap
C17_Witness ==
  /\ Len(text) = 4 /\ text[2] = " " /\ text[4] = " "
  /\ text[1] # " " /\ text[3] # " "

\* C18: when the classifier yields no prediction for a tick (predict rejects,
\* or resolves to no candidates) the engine state is exactly as before:
\* lastDetectedLabelRef, stableSinceRef, lastEmittedLabelRef, releaseStartRef,
\* the pending boundary timer and the text.
C18_FailedTickLeavesState ==
  [][\A c \in ChainIds :
       (chains[c].st = "await" /\ chains'[c].st = "none")
         => UNCHANGED <<gating, letterGapTimerRef, timers, text>>]_vars

\* the first loop's prediction has failed while a label was tracked and a
\* boundary timer was pending (no user event has stopped the loop)
C18_Witness ==
  /\ nui = 0 /\ chains[1].st = "none"
  /\ lastDetectedLabelRef # <<>> /\ text # <<>> /\ timers # {}

\* C19: a tick at or above the threshold with heldLongEnough and (label #
\* lastEmittedLabel or released) appends uppercase(label) to the text, sets
\* lastEmittedLabelRef to the label, clears releaseStartRef, leaves exactly one
\* boundary timer pending, due at now + LETTER_GAP_MS, and leaves
\* lastDetectedLabelRef and stableSinceRef as they were; every other tick at
\* or above the threshold appends nothing.
C19_CommitEffects ==
  [][\A c \in ChainIds :
       (chains[c].st = "await" /\ chains'[c].st = "frame" /\ h'.tick.kind = "above")
         => LET label == lastDetectedLabelRef'
                held == now - stableSinceRef' >= LoopHoldMs(c)
                released == releaseStartRef > 0 /\ now - releaseStartRef >= RELEASE_MS
                upper == IF label = <<"a">> THEN <<"A">> ELSE <<"B">>
            IN IF held /\ (label # lastEmittedLabelRef \/ released)
               THEN /\ text' = text \o upper
                    /\ lastEmittedLabelRef' = label
                    /\ releaseStartRef' = 0
                    /\ timers' = {now + LETTER_GAP_MS}
                    /\ lastDetectedLabelRef' = lastDetectedLabelRef
                    /\ stableSinceRef' = stableSinceRef
               ELSE text' = text]_vars

\* a tick has just committed and replaced the pending timer of the emission before
C19_Witness ==
  /\ h.tick.commit /\ h.cancelled /\ h.lastEmit = now
  /\ timers = {now + LETTER_GAP_MS} /\ releaseStartRef = 0
  /\ lastEmittedLabelRef = lastDetectedLabelRef /\ Len(text) = 2

\* C20: whenever the label at or above the threshold differs from
\* lastDetectedLabelRef (also from ''), stableSinceRef is set to now: the
\* tracked label and its start are those of the current run, and no tick emits
\* a character unless its own run has been held for holdMs, however long the
\* labels of earlier runs were seen.
C20_DwellRestartsOnChange ==
  /\ h.runLabel # <<>> =>
        lastDetectedLabelRef = h.runLabel /\ stableSinceRef = h.runStart
  /\ h.tick.commit => h.runReached /\ now - h.runStart >= HoldMin

\* right after 'A' was emitted, with no dip and no reset in between, the label
\* changed to b; that run started at the change and, 300 ms into it, has not
\* emitted
C20_Witness ==
  /\ text = <<"A">> /\ lastEmittedLabelRef = <<"a">> /\ releaseStartRef = 0
  /\ h.runLabel = <<"b">> /\ h.runStart = h.lastEmit /\ stableSinceRef = h.lastEmit
  /\ now = h.runStart + 300 /\ h.tick.kind = "above" /\ h.runEmits = 0

\* C21: a tick that does not commit (below the threshold, or at or above it
\* without heldLongEnough and (label # lastEmittedLabel or released)) leaves
\* the text, lastEmittedLabelRef and the pending boundary timer unchanged; a
\* below-threshold tick leaves a releaseStartRef that is already set
\* unchanged, and a non-committing tick at or above the threshold leaves
\* releaseStartRef unchanged.
C21_NonCommittingTickFrame ==
  [][\A c \in ChainIds :
       (chains[c].st = "await" /\ chains'[c].st = "frame")
         => LET above == h'.tick.kind = "above"
                label == lastDetectedLabelRef'
                held == now - stableSinceRef' >= LoopHoldMs(c)
                released == releaseStartRef > 0 /\ now - releaseStartRef >= RELEASE_MS
                commits == above /\ held /\ (label # lastEmittedLabelRef \/ released)
            IN ~commits =>
                 /\ UNCHANGED <<text, lastEmittedLabelRef, timers, letterGapTimerRef>>
                 /\ (above \/ releaseStartRef # 0) => UNCHANGED releaseStartRef]_vars

\* a tick at or above the threshold has not committed while a release timer
\* was running and a boundary timer was pending
C21_Witness ==
  /\ h.tick.kind = "above" /\ ~h.tick.commit
  /\ releaseStartRef > 0 /\ releaseStartRef < now
  /\ timers # {} /\ text = <<"A">> /\ lastEmittedLabelRef = <<"a">>

\* C22: every invocation of loop ends by requesting the next animation frame,
\* on every path, also when its predict call fails or yields no candidates: a
\* loop that awaits a prediction is never left without a requested frame.
C22_LoopKeepAlive ==
  [][\A c \in ChainIds : chains[c].st = "await" => chains'[c].st # "none"]_vars

\* C23: for every non-empty candidate list that predict resolves to, the
\* candidate fed to the commit logic is one of the list whose probability is
\* at least that of every other candidate; ties are resolved the same way
\* every time: the last of the candidates with the highest probability is taken.
C23_ArgmaxSelection ==
  pred.preds # <<>> =>
    LET ps == pred.preds
        top == {i \in 1..Len(ps) : \A j \in 1..Len(ps) : ps[i].probability >= ps[j].probability}
    IN /\ \A j \in 1..Len(ps) : pred.best.probability >= ps[j].probability
       /\ \E i \in top : (\A k \in top : k <= i) /\ pred.best = ps[i]

\* three candidates, the first and the last tie for the highest probability
\* under different class names, and the last one was taken
C23_Witness ==
  /\ Len(pred.preds) = 3
  /\ pred.preds[1].probability = 97 /\ pred.preds[3].probability = 97
  /\ pred.preds[2].probability = 50
  /\ pred.preds[1].className # pred.preds[3].className
  /\ pred.best = pred.preds[3] /\ lastDetectedLabelRef = <<"b">>

\* ---------------------------------------------------------------------------
\* api/nlp.ts: correctSentence and its failure cooldown
\* ---------------------------------------------------------------------------

\* rawText arguments and generateText replies, as sequences of characters
RawTexts == {<<"h", "i">>, <<" ", "h", "i">>}
Replies == {<<"H", "i", ".", " ">>}

\* clock steps between calls; three of them span the cooldown exactly
NlpDeltas == {10000}

InCooldown_Never(last, t) == FALSE

\* lastAiFailureAt && Date.now() - lastAiFailureAt < AI_FAILURE_COOLDOWN_MS
InCooldown(last, t) == last # 0 /\ t - last < AI_FAILURE_COOLDOWN_MS

\* the guards correctSentence passes before it builds the request
EarlyPath(n, t) ==
  IF ~n.configured THEN "config"
  ELSE IF n.offline THEN "offline"
  ELSE IF InCooldown(n.lastAiFailureAt, t) THEN "cooldown"
  ELSE "request"

\* correctSentence(rawText) up to its first await: an early return of rawText,
\* or the generateText request
CorrectSentence(i, raw) ==
  /\ nlp.calls[i].st = "none"
  /\ \A j \in CallIds : j < i => nlp.calls[j].st # "none"
  /\ LET path == EarlyPath(nlp, now)
         call == [NoCall EXCEPT !.raw = raw, !.started = now,
                                !.startNo = nlp.events + 1]
     IN nlp' = [nlp EXCEPT
                  !.events = @ + 1,
                  !.calls[i] =
                    IF path = "request"
                    THEN [call EXCEPT !.st = "inflight", !.requested = TRUE]
                    ELSE [call EXCEPT !.st = "done", !.path = path, !.ret = raw,
                                      !.ended = now, !.endNo = nlp.events + 1]]
  /\ UNCHANGED <<component, now>>

\* generateText resolves: the call returns text.trim()
GenerateTextResolve(i, reply) ==
  /\ nlp.calls[i].st = "inflight"
  /\ nlp' = [nlp EXCEPT
               !.events = @ + 1,
               !.calls[i] = [@ EXCEPT !.st = "done", !.path = "ok",
                                      !.ret = Trim(reply), !.ended = now,
                                      !.endNo = nlp.events + 1]]
  /\ UNCHANGED <<component, now>>

\* generateText rejects: the catch block stamps lastAiFailureAt and returns rawText
GenerateTextReject(i) ==
  /\ nlp.calls[i].st = "inflight"
  /\ nlp' = [nlp EXCEPT
               !.lastAiFailureAt = now,
               !.events = @ + 1,
               !.calls[i] = [@ EXCEPT !.st = "done", !.path = "failure",
                                      !.ret = nlp.calls[i].raw, !.ended = now,
                                      !.endNo = nlp.events + 1]]
  /\ UNCHANGED <<component, now>>

\* the environment: navigator.onLine and globalThis.ywConfig.ai_config[sceneName]
SetOffline(b) ==
  /\ nlp.offline # b
  /\ nlp' = [nlp EXCEPT !.offline = b]
  /\ UNCHANGED <<component, now>>

SetConfigured(b) ==
  /\ nlp.configured # b
  /\ nlp' = [nlp EXCEPT !.configured = b]
  /\ UNCHANGED <<component, now>>

\* time passes between calls
NlpAdvance(d) ==
  /\ now + d <= T0 + NlpHorizon * 10000
  /\ now' = now + d
  /\ UNCHANGED <<component, nlp>>

NextNlp ==
  \/ \E i \in CallIds, raw \in RawTexts : CorrectSentence(i, raw)
  \/ \E i \in CallIds, reply \in Replies : GenerateTextResolve(i, reply)
  \/ \E i \in CallIds : GenerateTextReject(i)
  \/ \E b \in BOOLEAN : SetOffline(b)
  \/ \E b \in BOOLEAN : SetConfigured(b)
  \/ \E d \in NlpDeltas : NlpAdvance(d)

SpecNlp == Init /\ [][NextNlp]_vars

\* a call that failed in generateText, and a later call that started inside
\* that failure's cooldown
Failed(j) == nlp.calls[j].st = "done" /\ nlp.calls[j].path = "failure"
StartedInCooldownOf(i, j) ==
  /\ Failed(j)
  /\ nlp.calls[i].st # "none"
  /\ nlp.calls[i].startNo > nlp.calls[j].endNo
  /\ nlp.calls[i].started < nlp.calls[j].ended + AI_FAILURE_COOLDOWN_MS

\* C24: after a call fails in generateText at time f, every call that starts
\* before f + 30000 ms returns rawText unchanged without issuing a
\* generateText request; and a call that returns on the missing-config,
\* offline, cooldown or request-failure path returns exactly its rawText.
C24_FailureCooldown ==
  /\ \A i, j \in CallIds :
       StartedInCooldownOf(i, j) =>
         /\ nlp.calls[i].st = "done"
         /\ ~nlp.calls[i].requested
         /\ nlp.calls[i].ret = nlp.calls[i].raw
  /\ \A i \in CallIds :
       (nlp.calls[i].st = "done"
          /\ nlp.calls[i].path \in {"config", "offline", "cooldown", "failure"})
       => nlp.calls[i].ret = nlp.calls[i].raw

\* a call fails, a second call 20 s later is turned away by the cooldown with
\* its untrimmed rawText, and a third call 30 s after the failure is let through
C24_Witness ==
  \E i, j, k \in CallIds :
    /\ StartedInCooldownOf(i, j)
    /\ nlp.calls[i].path = "cooldown"
    /\ nlp.calls[i].started = nlp.calls[j].ended + 20000
    /\ nlp.calls[i].raw = <<" ", "h", "i">>
    /\ nlp.calls[i].ret = <<" ", "h", "i">>
    /\ nlp.calls[k].requested
    /\ nlp.calls[k].started = nlp.calls[j].ended + AI_FAILURE_COOLDOWN_MS

\* C25: any two consecutive character emissions are separated by at least the
\* holdMs the emitting loop uses, hence by at least 200 ms, whatever ticks,
\* resets and boundary callbacks come between them.
C25_EmissionSpacing ==
  [][\A c \in ChainIds :
       (chains[c].st = "await" /\ chains'[c].st = "frame"
          /\ Letters(text') > Letters(text) /\ h.lastEmit > 0)
         => /\ now - h.lastEmit >= LoopHoldMs(c)
            /\ now - h.lastEmit >= HoldMin]_vars

\* the second character has just been emitted, as early as two dwells allow:
\* one holdMs after the first
C25_Witness ==
  /\ h.tick.commit /\ h.lastEmit = now /\ Letters(text) = 2 /\ Len(text) = 2
  /\ now = T0 + 2 * DefaultHoldMs

\* C26: in every reachable state at most one word-boundary callback is
\* outstanding, and it is the one letterGapTimerRef holds: every commit, onReset
\* and the unmount cleanup cancel the callback scheduled before.
C26_SingleBoundaryTimer ==
  /\ Cardinality(timers) <= 1
  /\ timers \subseteq {letterGapTimerRef}

\* a commit replaced a callback that was still pending, time has passed, and
\* only the replacement is outstanding
C26_Witness ==
  /\ h.cancelled /\ h.lastEmit > 0 /\ now > h.lastEmit
  /\ letterGapTimerRef = h.lastEmit + LETTER_GAP_MS
  /\ timers = {letterGapTimerRef}

====
